---- MODULE Spec2Model ----
(***************************************************************************)
(* campus-map-backend: the offline route engine (Graph Loader + Path       *)
(* Engine) and the dual-store handlers for categories and places.          *)
(*                                                                         *)
(* Two stores: the canonical PostgreSQL data source (pg...) and the        *)
(* reduced SQLite mirror (sqlite...).  Every HTTP handler is one action;   *)
(* its response is left in a response variable.                            *)
(***************************************************************************)
EXTENDS Integers, Sequences, FiniteSets, TLC

VARIABLES
    pgEdges,      \* rows of the Edge table of the canonical store, in load order
    importRes,    \* response of the last importEdgesCSV request
    route,        \* response of the last offlineRoute request
    pgCategories,     \* rows of the Category table of the canonical store
    sqliteCategories, \* rows of the CategoryLite table of the mirror store
    pgPlaces,         \* rows of the Place table of the canonical store
    sqlitePlaces,     \* rows of the PlaceLite table of the mirror store
    nextId,           \* the next identifier the canonical store generates
    res,              \* response of the last category or place request
    pgState,          \* the canonical store: "up", "down" or "uninitialized"
    probe,            \* result of the last isPostgreSQLAvailable call
    calls,            \* the requests in flight: each one's position and data
    pgSignalements    \* rows of the Signalement table of the canonical store

routeVars == <<pgEdges, importRes, route>>
storeVars == <<pgCategories, sqliteCategories, pgPlaces, sqlitePlaces, nextId, res>>
envVars == <<pgState, probe>>
callVars == <<calls, pgSignalements>>
exceptRoute == <<storeVars, envVars, callVars>>
exceptStore == <<routeVars, envVars, callVars>>
vars == <<pgEdges, importRes, route, pgCategories, sqliteCategories, pgPlaces,
          sqlitePlaces, nextId, res, pgState, probe, calls, pgSignalements>>

(***************************************************************************)
(* Bounds of the model.                                                    *)
(***************************************************************************)
MaxEdges == 2        \* rows the Edge table may hold
MaxCost == 2         \* largest cost a CSV row carries
MaxIds == 3          \* identifiers the canonical store may generate
MaxCoord == 1        \* largest latitude or longitude a request carries

Nodes == {"A", "B", "C"}        \* identifiers that occur as edge endpoints
\* The route requests: every pair of nodes, the requests that name the
\* unknown "ghost", and the two requests that lack an identifier.
Queries == (Nodes \X Nodes)
               \cup {<<"ghost", "A">>, <<"A", "ghost">>, <<"ghost", "ghost">>,
                     <<"", "A">>, <<"A", "">>}
Unset == -1                     \* a CSV row without a cost column
CsvCosts == {Unset} \cup (0..MaxCost)

(***************************************************************************)
(* src/loaders/database.ts: the entities each data source registers.       *)
(* A repository of an entity the data source does not register throws      *)
(* (EntityMetadataNotFoundError) when it is first used.                    *)
(***************************************************************************)
\* a mirror that also registers Category, which database.ts does not do
sqliteEntitiesMutWithCategory == {"PlaceLite", "CategoryLite", "Category"}
sqliteEntities == {"PlaceLite", "CategoryLite"}
pgEntities == {"Place", "Category", "CategoryLite", "Course", "User", "Device",
               "Session", "Position", "Edge", "Instructor", "Schedule",
               "Signalement", "PlaceLite"}

HasMetadata(entities, entity) == entity \in entities

(***************************************************************************)
(* offlineRouteController.ts                                               *)
(***************************************************************************)
\* Stands for JavaScript's Infinity: larger than every sum of leg costs.
Infinity == MaxEdges * (MaxCost + 1) + 1
\* Stands for null (and for every falsy string: `while (cur)` stops on both).
Null == ""

\* `e.cost || 1`: a falsy stored cost (0) becomes 1.
LegCost(cost) == IF cost = 0 THEN 1 ELSE cost

\* One pass of the loader's loop body (lines 53-57) for edge e: the forward
\* leg under e.fromId, then the reverse leg under e.toId.  keys is the
\* insertion order of the object's own keys.
AddLeg(adj, k, leg) ==
    IF k \in DOMAIN adj.legs
    THEN [adj EXCEPT !.legs[k] = Append(@, leg)]
    ELSE [keys |-> Append(adj.keys, k),
          legs |-> [x \in DOMAIN adj.legs \cup {k} |->
                       IF x = k THEN <<leg>> ELSE adj.legs[x]]]

ExpandEdgeMutOneWay(adj, e) ==
    LET fwd == AddLeg(adj, e.fromId, [to |-> e.toId, cost |-> LegCost(e.cost)])
    IN IF e.toId \in DOMAIN fwd.legs THEN fwd
       ELSE [keys |-> Append(fwd.keys, e.toId),
             legs |-> [x \in DOMAIN fwd.legs \cup {e.toId} |->
                          IF x = e.toId THEN <<>> ELSE fwd.legs[x]]]
ExpandEdge(adj, e) ==
    LET fwd == AddLeg(adj, e.fromId, [to |-> e.toId, cost |-> LegCost(e.cost)])
    IN AddLeg(fwd, e.toId, [to |-> e.fromId, cost |-> LegCost(e.cost)])

RECURSIVE BuildAdj(_, _)
BuildAdj(edges, adj) ==
    IF edges = <<>> THEN adj
    ELSE BuildAdj(Tail(edges), ExpandEdge(adj, Head(edges)))

EmptyAdj == [keys |-> <<>>, legs |-> <<>>]

\* Lines 16-20: the first key of pq (in insertion order) whose distance is
\* strictly below every earlier one; Null when all are Infinity.
RECURSIVE ExtractMin(_, _, _, _)
ExtractMin(pq, dist, u, best) ==
    IF pq = <<>> THEN u
    ELSE LET v == Head(pq) IN
         IF dist[v] < best
         THEN ExtractMin(Tail(pq), dist, v, dist[v])
         ELSE ExtractMin(Tail(pq), dist, u, best)

Delete(pq, u) == SelectSeq(pq, LAMBDA v : v # u)

\* Lines 25-31: relax the legs of u in order.
RelaxOneMutKeepFirst(st, u, e) ==
    LET alt == st.dist[u] + e.cost IN
    IF st.dist[e.to] = Infinity
    THEN [dist |-> [st.dist EXCEPT ![e.to] = alt],
          prev |-> [st.prev EXCEPT ![e.to] = u]]
    ELSE st
\* a relaxation that overwrites whatever the leg reaches
RelaxOneMutAlways(st, u, e) ==
    [dist |-> [st.dist EXCEPT ![e.to] = st.dist[u] + e.cost],
     prev |-> [st.prev EXCEPT ![e.to] = u]]

RelaxOne(st, u, e) ==
    LET alt == st.dist[u] + e.cost IN
    IF alt < st.dist[e.to]
    THEN [dist |-> [st.dist EXCEPT ![e.to] = alt],
          prev |-> [st.prev EXCEPT ![e.to] = u]]
    ELSE st

RECURSIVE Relax(_, _, _)
Relax(st, u, neighbors) ==
    IF neighbors = <<>> THEN st
    ELSE Relax(RelaxOne(st, u, Head(neighbors)), u, Tail(neighbors))

\* Lines 14-32: the main loop.
RECURSIVE Search(_, _, _, _)
Search(adj, goal, st, pq) ==
    IF pq = <<>> THEN st
    ELSE LET u == ExtractMin(pq, st.dist, Null, Infinity) IN
         IF u = Null THEN st
         ELSE IF u = goal THEN st
         ELSE Search(adj, goal, Relax(st, u, adj.legs[u]), Delete(pq, u))

\* The states the main loop passes through: dist, prev and pq after each
\* execution of the relaxation (lines 26-30), in order.
RECURSIVE RelaxSteps(_, _, _, _)
RelaxSteps(st, u, neighbors, pq) ==
    IF neighbors = <<>> THEN <<>>
    ELSE LET n == RelaxOne(st, u, Head(neighbors))
         IN <<[dist |-> n.dist, prev |-> n.prev, pq |-> pq]>>
                \o RelaxSteps(n, u, Tail(neighbors), pq)

RECURSIVE SearchSteps(_, _, _, _)
SearchSteps(adj, goal, st, pq) ==
    IF pq = <<>> THEN <<>>
    ELSE LET u == ExtractMin(pq, st.dist, Null, Infinity) IN
         IF u = Null \/ u = goal THEN <<>>
         ELSE RelaxSteps(st, u, adj.legs[u], Delete(pq, u))
                  \o SearchSteps(adj, goal, Relax(st, u, adj.legs[u]),
                                 Delete(pq, u))

\* the state before the first iteration (lines 8-13) followed by the steps
dijkstraSteps(adj, start, goal) ==
    LET K == DOMAIN adj.legs
        st0 == [dist |-> [[k \in K |-> Infinity] EXCEPT ![start] = 0],
                prev |-> [k \in K |-> Null]]
    IN <<[dist |-> st0.dist, prev |-> st0.prev, pq |-> adj.keys]>>
           \o SearchSteps(adj, goal, st0, adj.keys)

\* Lines 34-36: walk the predecessors back from goal.  fuel bounds the walk:
\* a walk that outlives it would never end in the program.
RECURSIVE WalkBack(_, _, _, _)
WalkBack(prev, cur, path, fuel) ==
    IF cur = Null THEN [path |-> path, ends |-> TRUE]
    ELSE IF fuel = 0 THEN [path |-> path, ends |-> FALSE]
    ELSE WalkBack(prev, prev[cur], <<cur>> \o path, fuel - 1)

ReconstructMutDropStart(prev, goal, fuel) ==
    LET w == WalkBack(prev, goal, <<>>, fuel)
    IN IF Len(w.path) > 1 THEN [w EXCEPT !.path = Tail(w.path)] ELSE w
Reconstruct(prev, goal, fuel) == WalkBack(prev, goal, <<>>, fuel)

NoRoute == [found |-> FALSE, path |-> <<>>, distance |-> 0, ends |-> TRUE]

dijkstraMutNoInfinityCheck(adj, start, goal) ==
    LET K == DOMAIN adj.legs
        dist0 == [k \in K |-> Infinity]
        prev0 == [k \in K |-> Null]
    IN IF start \notin K \/ goal \notin K THEN NoRoute
       ELSE LET st == Search(adj, goal,
                             [dist |-> [dist0 EXCEPT ![start] = 0], prev |-> prev0],
                             adj.keys)
                w == Reconstruct(st.prev, goal, Cardinality(K) + 1)
            IN [found |-> TRUE, path |-> w.path,
                distance |-> st.dist[goal], ends |-> w.ends]
dijkstra(adj, start, goal) ==
    LET K == DOMAIN adj.legs
        dist0 == [k \in K |-> Infinity]
        prev0 == [k \in K |-> Null]
    IN IF start \notin K \/ goal \notin K THEN NoRoute
       ELSE LET st == Search(adj, goal,
                             [dist |-> [dist0 EXCEPT ![start] = 0], prev |-> prev0],
                             adj.keys)
            IN IF st.dist[goal] = Infinity THEN NoRoute
               ELSE LET w == Reconstruct(st.prev, goal, Cardinality(K) + 1) IN
                    [found |-> TRUE, path |-> w.path,
                     distance |-> st.dist[goal], ends |-> w.ends]

\* shortestPath of the specification: load every edge, expand, search.
shortestPath(edges, fromId, toId) == dijkstra(BuildAdj(edges, EmptyAdj), fromId, toId)

Idle == [status |-> 0, fromId |-> Null, toId |-> Null,
         path |-> <<>>, distance |-> 0, ends |-> TRUE]

\* offlineRoute (lines 40-65).
offlineRoute(fromId, toId) ==
    /\ route' =
         IF fromId = Null \/ toId = Null
         THEN [Idle EXCEPT !.status = 400]
         ELSE LET r == shortestPath(pgEdges, fromId, toId) IN
              IF ~r.found
              THEN [Idle EXCEPT !.status = 404, !.fromId = fromId, !.toId = toId]
              ELSE [status |-> 200, fromId |-> fromId, toId |-> toId,
                    path |-> r.path, distance |-> r.distance, ends |-> r.ends]
    /\ UNCHANGED <<pgEdges, importRes>>
    /\ UNCHANGED exceptRoute

(***************************************************************************)
(* edgesController.ts                                                      *)
(***************************************************************************)
\* Line 21: parseFloat(r.cost || '1').  The CSV cell is a string, so '0' is
\* kept and only a missing or empty cell becomes 1.
ParseCost(c) == IF c = Unset THEN 1 ELSE c

\* The rows a file may carry: every edge between two different nodes in
\* either direction with every cost, and the loop C-C without a cost.
CsvRows == {r \in [fromId : Nodes, toId : Nodes, cost : CsvCosts] : r.fromId # r.toId}
               \cup {[fromId |-> "C", toId |-> "C", cost |-> Unset]}

NoImport == [status |-> 0, imported |-> 0]
\* The request never gets a response (the rejection of the async 'end'
\* callback is not handled).
NoResponse == [status |-> -1, imported |-> 0]

\* importEdgesCSV (lines 7-36).  For each row: save to PostgreSQL (line 27),
\* then create the SQLite copy (line 29).  sqliteDataSource registers no Edge
\* entity, so line 29 throws on the first row, after that row's PostgreSQL
\* save; the loop and the response (line 33) are not reached.
importEdgesCSV(records) ==
    /\ Len(pgEdges) < MaxEdges
    /\ IF records = <<>>
       THEN /\ importRes' = [status |-> 200, imported |-> 0]
            /\ UNCHANGED pgEdges
       ELSE LET r == Head(records)
                e == [fromId |-> r.fromId, toId |-> r.toId, cost |-> ParseCost(r.cost)]
            IN IF HasMetadata(sqliteEntities, "Edge")
               THEN /\ pgEdges' = pgEdges \o
                          [i \in 1..Len(records) |->
                              [fromId |-> records[i].fromId, toId |-> records[i].toId,
                               cost |-> ParseCost(records[i].cost)]]
                    /\ importRes' = [status |-> 200, imported |-> Len(records)]
               ELSE /\ pgEdges' = Append(pgEdges, e)
                    /\ importRes' = NoResponse
    /\ route' = Idle
    /\ UNCHANGED exceptRoute

\* The uploaded files: no row, one row, or two rows of which the second is
\* the row B-C without a cost.
SecondRows == {[fromId |-> "B", toId |-> "C", cost |-> Unset]}
CsvFiles == {<<>>} \cup {<<r>> : r \in CsvRows}
                 \cup {<<r, r2>> : r \in CsvRows, r2 \in SecondRows}

InitRoute ==
    /\ pgEdges = <<>>
    /\ importRes = NoImport
    /\ route = Idle

NextRoute ==
    \/ \E records \in CsvFiles : importEdgesCSV(records)
    \/ \E q \in Queries : offlineRoute(q[1], q[2])

(***************************************************************************)
(* The dual store.  Categories: controllers/categoriesController.ts;       *)
(* places: controllers/placesController.ts.  Identifiers are the uuids the *)
(* canonical store generates, modelled as consecutive integers; names are  *)
(* sequences of characters, so that trim() and the name checks are         *)
(* computed rather than assumed.                                           *)
(***************************************************************************)
NoId == 0                       \* a null reference (nullable ManyToOne)
Ids == 1..MaxIds                \* the identifiers a request may name

Lab == <<"L", "a", "b">>
Hall == <<"H", "a", "l", "l">>
Bureau == <<"B", "u", "r", "e", "a", "u">>
Rectorat == <<"R", "e", "c", "t", "o", "r", "a", "t">>
Amphi == <<"A", "m", "p", "h", "i">>
Cafe == <<"C", "a", "f", "e">>

MinNameLength == 2
MaxNameLength == 50

\* The names a category request carries: two plain names, one with blanks
\* around it, one too short, one with a character outside the allowed set,
\* the missing name and one that is too long.
CategoryNames ==
    {Lab, <<" ">> \o Lab \o <<" ">>, Hall, <<"L">>, <<"L", "a", "!">>, <<>>,
     [i \in 1..(MaxNameLength + 1) |-> "x"]}

\* String.prototype.trim
Whitespace == {" ", "\t", "\n"}
RECURSIVE trimStart(_)
trimStart(s) ==
    IF s # <<>> /\ Head(s) \in Whitespace THEN trimStart(Tail(s)) ELSE s
RECURSIVE trimEnd(_)
trimEnd(s) ==
    IF s # <<>> /\ s[Len(s)] \in Whitespace
    THEN trimEnd(SubSeq(s, 1, Len(s) - 1))
    ELSE s
trim(s) == trimEnd(trimStart(s))

\* nameRegex = /^[a-zA-ZÀ-ÿ0-9\s\-_]+$/ over the letters in use
NameChars ==
    {"a", "b", "c", "d", "e", "f", "g", "h", "i", "j", "k", "l", "m", "n",
     "o", "p", "q", "r", "s", "t", "u", "v", "w", "x", "y", "z",
     "A", "B", "C", "D", "E", "F", "G", "H", "I", "J", "K", "L", "M", "N",
     "O", "P", "Q", "R", "S", "T", "U", "V", "W", "X", "Y", "Z",
     "0", "1", "2", "3", "4", "5", "6", "7", "8", "9", "-", "_"}
        \cup Whitespace
nameRegex(s) == s # <<>> /\ \A i \in 1..Len(s) : s[i] \in NameChars

\* The checks createCategory and updateCategory make on the trimmed name.
ValidCategoryName(name) ==
    /\ name # <<>>
    /\ Len(trim(name)) >= MinNameLength
    /\ Len(trim(name)) <= MaxNameLength
    /\ nameRegex(trim(name))

\* Repository operations on a table held as a set of rows.
findOne(rows, id) == {r \in rows : r.id = id}
findByName(rows, name) == {r \in rows : r.name = name}
save(rows, row) == {r \in rows : r.id # row.id} \cup {row}
remove(rows, found) == rows \ found
\* the UNIQUE(name) constraint both stores put on categories and places
UniqueViolationMutNoConstraint(rows, row) == FALSE

UniqueViolation(rows, row) ==
    \E r \in rows : r.id # row.id /\ r.name = row.name

\* The response of a category or place request.
NoRes ==
    [op |-> "", status |-> 0, id |-> NoId, name |-> <<>>, source |-> "",
     body |-> {}, deletedFrom |-> {}, failed |-> ""]
Reply(op, status, id) == [NoRes EXCEPT !.op = op, !.status = status, !.id = id]
\* the answer of a catch branch after a write to the mirror threw; failed
\* records that the write was refused by the store itself
Thrown(op, id, sqliteWritable) ==
    [Reply(op, 500, id) EXCEPT !.failed = IF sqliteWritable THEN "" ELSE "sqlite"]

\* the answer to a write the canonical store could not serve
Unreachable(op, status, id) ==
    [Reply(op, status, id) EXCEPT !.failed = "postgresql"]

Untouched ==
    UNCHANGED <<pgCategories, sqliteCategories, pgPlaces, sqlitePlaces, nextId>>

(***************************************************************************)
(* createCategory: validation, duplicate check in both stores, canonical   *)
(* write, then the mirror row under the canonical identifier.              *)
(***************************************************************************)
liteCategoryMutOwnId(savedPg, trimmedName) ==
    [id |-> -savedPg.id, name |-> trimmedName]

liteCategory(savedPg, trimmedName) ==
    [id |-> savedPg.id, name |-> trimmedName]

createCategoryMutNoDuplicateCheck(name, pg, sqliteWritable) ==
    LET trimmedName == trim(name)
        savedPg == [id |-> nextId, name |-> trimmedName]
    IN  /\ ValidCategoryName(name)
        /\ nextId <= MaxIds
        /\ pgCategories' = save(pgCategories, savedPg)
        /\ sqliteCategories' =
               save(sqliteCategories, liteCategory(savedPg, trimmedName))
        /\ nextId' = nextId + 1
        /\ res' = [Reply("createCategory", 201, savedPg.id) EXCEPT !.name = name]
        /\ UNCHANGED <<pgPlaces, sqlitePlaces>>
        /\ UNCHANGED exceptStore

createCategory(name, pg, sqliteWritable) ==
    LET trimmedName == trim(name)
        existPg == findByName(pgCategories, trimmedName)
        existLite == findByName(sqliteCategories, trimmedName)
        savedPg == [id |-> nextId, name |-> trimmedName]
    IN  /\ IF ~ValidCategoryName(name)
           THEN /\ res' = [Reply("createCategory", 400, NoId) EXCEPT !.name = name]
                /\ Untouched
           ELSE IF pg # "up"
           THEN \* 503 when the data source is not initialized; otherwise
                \* the first canonical query throws and the catch answers 500
                /\ res' = [Unreachable("createCategory",
                                       IF pg = "uninitialized" THEN 503 ELSE 500,
                                       NoId) EXCEPT !.name = name]
                /\ Untouched
           ELSE IF existPg # {} \/ existLite # {}
           THEN /\ res' = [Reply("createCategory", 409, NoId) EXCEPT !.name = name]
                /\ Untouched
           ELSE /\ nextId <= MaxIds
                /\ pgCategories' = save(pgCategories, savedPg)
                /\ nextId' = nextId + 1
                /\ IF ~sqliteWritable
                   THEN \* sqliteRepo.save throws: the catch branch answers 500
                        /\ res' = [Thrown("createCategory", NoId, sqliteWritable)
                                       EXCEPT !.name = name]
                        /\ UNCHANGED sqliteCategories
                   ELSE /\ sqliteCategories' =
                               save(sqliteCategories,
                                    liteCategory(savedPg, trimmedName))
                        /\ res' = [Reply("createCategory", 201, savedPg.id)
                                       EXCEPT !.name = name]
                /\ UNCHANGED <<pgPlaces, sqlitePlaces>>
        /\ UNCHANGED exceptStore

(***************************************************************************)
(* updateCategory: the category must exist in both stores; the canonical   *)
(* row is saved first, the mirror row second.                              *)
(***************************************************************************)
updateCategory(id, name, pg, sqliteWritable) ==
    LET trimmedName == trim(name)
        catPg == findOne(pgCategories, id)
        catLite == findOne(sqliteCategories, id)
        existingWithSameName == findByName(pgCategories, trimmedName)
        updated == [id |-> id, name |-> trimmedName]
    IN  /\ IF ~ValidCategoryName(name)
           THEN res' = Reply("updateCategory", 400, id) /\ Untouched
           ELSE IF pg # "up"
           THEN /\ res' = Unreachable("updateCategory",
                                      IF pg = "uninitialized" THEN 503 ELSE 500,
                                      id)
                /\ Untouched
           ELSE IF catPg = {} \/ catLite = {}
           THEN res' = Reply("updateCategory", 404, id) /\ Untouched
           ELSE IF \E c \in existingWithSameName : c.id # id
           THEN res' = Reply("updateCategory", 409, id) /\ Untouched
           ELSE /\ pgCategories' = save(pgCategories, updated)
                /\ IF UniqueViolation(sqliteCategories, updated)
                        \/ (~sqliteWritable /\ catLite # {updated})
                   THEN \* SQLITE_CONSTRAINT or a failed write: not code
                        \* 23505, answered 500
                        /\ res' = Thrown("updateCategory", id, sqliteWritable)
                        /\ UNCHANGED sqliteCategories
                   ELSE /\ sqliteCategories' = save(sqliteCategories, updated)
                        /\ res' = Reply("updateCategory", 200, id)
                /\ UNCHANGED <<pgPlaces, sqlitePlaces, nextId>>
        /\ UNCHANGED exceptStore

(***************************************************************************)
(* deleteCategory: refused while a canonical place uses the category;      *)
(* each store that holds the row removes it, the canonical store first.    *)
(* A removal that throws (pgWritable, sqliteWritable false) leaves the try *)
(* block: nothing after it runs.                                           *)
(***************************************************************************)
deleteCategory(id, pg, sqliteWritable, pgWritable) ==
    LET catPg == findOne(pgCategories, id)
        catLite == findOne(sqliteCategories, id)
        pgUses == {p \in pgPlaces : p.categoryId = id}
        liteUses == {p \in sqlitePlaces : p.categoryId = id}
    IN  /\ IF pg # "up"
           THEN /\ res' = Unreachable("deleteCategory",
                                      IF pg = "uninitialized" THEN 503 ELSE 500,
                                      id)
                /\ Untouched
           ELSE IF catPg = {} /\ catLite = {}
           THEN res' = Reply("deleteCategory", 404, id) /\ Untouched
           ELSE IF catPg # {} /\ pgUses # {}
           THEN res' = Reply("deleteCategory", 409, id) /\ Untouched
           ELSE IF catPg # {} /\ ~pgWritable
           THEN \* pgRepo.remove throws: the catch branch answers 500
                res' = Unreachable("deleteCategory", 500, id) /\ Untouched
           ELSE /\ pgCategories' = remove(pgCategories, catPg)
                /\ IF catLite # {} /\ (liteUses # {} \/ ~sqliteWritable)
                   THEN \* the mirror's foreign key refuses, or the write
                        \* fails: answered 500
                        /\ res' = Thrown("deleteCategory", id, sqliteWritable)
                        /\ UNCHANGED sqliteCategories
                   ELSE /\ sqliteCategories' = remove(sqliteCategories, catLite)
                        /\ res' = [Reply("deleteCategory", 200, id)
                                       EXCEPT !.deletedFrom =
                                           {"postgresql" : c \in catPg}
                                               \cup {"sqlite" : c \in catLite}]
                /\ UNCHANGED <<pgPlaces, sqlitePlaces, nextId>>
        /\ UNCHANGED exceptStore

(***************************************************************************)
(* Places.  A canonical row carries every column of the Place entity; a    *)
(* mirror row carries the columns of PlaceLite.  A nullable column holds   *)
(* null or a value; values are kept as strings (capacity included) so that *)
(* a field of a response is comparable with null.                          *)
(***************************************************************************)
null == "null"
undefined == "undefined"        \* a property the request body lacks

pgInstructors == {"inst-1"}     \* identifiers of the seeded instructors
pgCourses == {}                 \* courses held at the places of the model

NoDetails ==
    [description |-> undefined, officeOwner |-> undefined,
     capacity |-> undefined, building |-> undefined, floor |-> undefined,
     code |-> undefined]
AllDetails ==
    [description |-> "Bureau officiel", officeOwner |-> "Recteur",
     capacity |-> "40", building |-> "Admin", floor |-> "2",
     code |-> "ADM-RECT"]

\* A request body; <<>> is a missing name or category, Unset a missing
\* coordinate, "" a missing instructorId.
Body(name, latitude, longitude, category, d, instructorId) ==
    [name |-> name, description |-> d.description, latitude |-> latitude,
     longitude |-> longitude, category |-> category,
     officeOwner |-> d.officeOwner, capacity |-> d.capacity,
     building |-> d.building, floor |-> d.floor, code |-> d.code,
     instructorId |-> instructorId]

\* Bodies of createPlace: plain places and a fully described one at
\* latitude MaxCoord, bodies that lack a required field or carry a zero
\* coordinate, bodies that name a category, bodies that name an unknown
\* instructor.
CreateBodies ==
    {Body(n, MaxCoord, 1, <<>>, NoDetails, "") : n \in {Amphi, Cafe}}
    \cup {Body(Amphi, MaxCoord, 1, <<>>, AllDetails, "inst-1"),
          Body(<<>>, 1, 1, <<>>, NoDetails, ""),
          Body(Amphi, 0, 1, <<>>, NoDetails, ""),
          Body(Amphi, 1, Unset, <<>>, NoDetails, ""),
          Body(Amphi, 1, 1, Bureau, NoDetails, ""),
          Body(Amphi, 1, 1, Lab, NoDetails, ""),
          Body(Amphi, 1, 1, <<>>, NoDetails, "inst-x"),
          Body(Amphi, 1, 1, Lab, NoDetails, "inst-x")}

\* Bodies of updatePlace: each changes one aspect of the place (the name,
\* the latitude, the longitude, the canonical-only data, the category, the
\* instructor) or nothing.
UpdateBodies ==
    {Body(n, Unset, Unset, <<>>, NoDetails, "") : n \in {<<>>, Amphi, Cafe}}
    \cup {Body(<<>>, 0, Unset, <<>>, NoDetails, ""),
          Body(<<>>, MaxCoord, Unset, <<>>, NoDetails, ""),
          Body(<<>>, Unset, 1, <<>>, NoDetails, ""),
          Body(<<>>, Unset, Unset, <<>>, AllDetails, "inst-1"),
          Body(<<>>, Unset, Unset, Bureau, NoDetails, ""),
          Body(<<>>, Unset, Unset, Lab, NoDetails, ""),
          Body(<<>>, Unset, Unset, <<>>, NoDetails, "inst-x")}

Falsy(n) == n = Unset \/ n = 0              \* !latitude, !longitude
Column(v) == IF v = undefined THEN null ELSE v
Merge(old, v) == IF v = undefined THEN old ELSE v
MergeNumber(old, n) == IF n = Unset THEN old ELSE n
MergeName(old, name) == IF name = <<>> THEN old ELSE name
IdOf(found) == IF found = {} THEN NoId ELSE (CHOOSE r \in found : TRUE).id

\* pgRepo.create of createPlace
newPgPlace(id, body, categoryId) ==
    [id |-> id, name |-> body.name, description |-> Column(body.description),
     photos |-> null, latitude |-> body.latitude,
     longitude |-> body.longitude, categoryId |-> categoryId,
     officeOwner |-> Column(body.officeOwner),
     capacity |-> Column(body.capacity), building |-> Column(body.building),
     floor |-> Column(body.floor), code |-> Column(body.code),
     instructorId |-> IF body.instructorId = "" THEN null
                      ELSE body.instructorId]

\* sqlitePlaceRepo.create of createPlace
newSqlitePlaceMutNoLatitude(savedPgPlace, categoryId) ==
    [id |-> savedPgPlace.id, name |-> savedPgPlace.name,
     latitude |-> 0,
     longitude |-> savedPgPlace.longitude, categoryId |-> categoryId]

\* a copy that leaves the identifier to the mirror's own generator
newSqlitePlaceMutOwnId(savedPgPlace, categoryId) ==
    [id |-> -savedPgPlace.id, name |-> savedPgPlace.name,
     latitude |-> savedPgPlace.latitude,
     longitude |-> savedPgPlace.longitude, categoryId |-> categoryId]

newSqlitePlace(savedPgPlace, categoryId) ==
    [id |-> savedPgPlace.id, name |-> savedPgPlace.name,
     latitude |-> savedPgPlace.latitude,
     longitude |-> savedPgPlace.longitude, categoryId |-> categoryId]

(***************************************************************************)
(* createPlace.  A body that names a category makes the handler look the   *)
(* category up through sqliteDataSource.getRepository(Category); the       *)
(* mirror data source does not register Category, so that lookup throws    *)
(* and the request ends in handleError before anything is written.         *)
(***************************************************************************)
createPlace(body, postgresAvailable, sqliteWritable) ==
    LET wantsCat == body.category # <<>>
        foundPg == findByName(pgCategories, body.category)
        foundLite == findByName(sqliteCategories, body.category)
        catCreated == wantsCat /\ foundPg = {}
        pgCatId == IF ~wantsCat THEN NoId
                   ELSE IF catCreated THEN nextId ELSE IdOf(foundPg)
        liteCatId == IF ~wantsCat THEN NoId
                     ELSE IF foundLite = {} THEN pgCatId ELSE IdOf(foundLite)
        pgCats == IF catCreated
                  THEN save(pgCategories, [id |-> nextId, name |-> body.category])
                  ELSE pgCategories
        liteCats == IF wantsCat /\ foundLite = {}
                    THEN save(sqliteCategories,
                              [id |-> pgCatId, name |-> body.category])
                    ELSE sqliteCategories
        placeId == IF catCreated THEN nextId + 1 ELSE nextId
        savedPgPlace == newPgPlace(placeId, body, pgCatId)
        sqlitePlace == newSqlitePlace(savedPgPlace, liteCatId)
    IN  /\ IF body.name = <<>> \/ Falsy(body.latitude) \/ Falsy(body.longitude)
           THEN res' = Reply("createPlace", 400, NoId) /\ Untouched
           ELSE IF ~postgresAvailable
           THEN res' = Unreachable("createPlace", 500, NoId) /\ Untouched
           ELSE IF wantsCat /\ ~HasMetadata(sqliteEntities, "Category")
           THEN res' = Reply("createPlace", 500, NoId) /\ Untouched
           ELSE /\ catCreated => nextId <= MaxIds
                /\ pgCategories' = pgCats
                /\ sqliteCategories' = liteCats
                /\ IF body.instructorId # "" /\ body.instructorId \notin pgInstructors
                   THEN /\ res' = Reply("createPlace", 404, NoId)
                        /\ nextId' = placeId
                        /\ UNCHANGED <<pgPlaces, sqlitePlaces>>
                   ELSE IF UniqueViolation(pgPlaces, savedPgPlace)
                   THEN /\ res' = Reply("createPlace", 500, NoId)
                        /\ nextId' = placeId
                        /\ UNCHANGED <<pgPlaces, sqlitePlaces>>
                   ELSE /\ placeId <= MaxIds
                        /\ pgPlaces' = save(pgPlaces, savedPgPlace)
                        /\ nextId' = placeId + 1
                        /\ IF UniqueViolation(sqlitePlaces, sqlitePlace)
                                \/ ~sqliteWritable
                           THEN /\ res' = Thrown("createPlace", NoId,
                                                 sqliteWritable)
                                /\ UNCHANGED sqlitePlaces
                           ELSE /\ sqlitePlaces' = save(sqlitePlaces, sqlitePlace)
                                /\ res' = Reply("createPlace", 201, placeId)
        /\ UNCHANGED exceptStore

(***************************************************************************)
(* updatePlace: merges the fields the body carries into the canonical row  *)
(* and the mirror fields into the mirror row, each where the row exists.   *)
(***************************************************************************)
mergePgPlace(p, body, categoryId) ==
    [p EXCEPT !.name = MergeName(p.name, body.name),
              !.description = Merge(p.description, body.description),
              !.latitude = MergeNumber(p.latitude, body.latitude),
              !.longitude = MergeNumber(p.longitude, body.longitude),
              !.officeOwner = Merge(p.officeOwner, body.officeOwner),
              !.capacity = Merge(p.capacity, body.capacity),
              !.building = Merge(p.building, body.building),
              !.floor = Merge(p.floor, body.floor),
              !.code = Merge(p.code, body.code),
              !.categoryId = IF categoryId = NoId THEN p.categoryId
                             ELSE categoryId,
              !.instructorId = IF body.instructorId = "" THEN p.instructorId
                               ELSE body.instructorId]

mergeSqlitePlaceMutKeepsPosition(p, body, categoryId) ==
    [p EXCEPT !.name = MergeName(p.name, body.name),
              !.categoryId = IF categoryId = NoId THEN p.categoryId
                             ELSE categoryId]

mergeSqlitePlace(p, body, categoryId) ==
    [p EXCEPT !.name = MergeName(p.name, body.name),
              !.latitude = MergeNumber(p.latitude, body.latitude),
              !.longitude = MergeNumber(p.longitude, body.longitude),
              !.categoryId = IF categoryId = NoId THEN p.categoryId
                             ELSE categoryId]

updatePlace(id, body, postgresAvailable, sqliteWritable) ==
    LET pgPlace == findOne(pgPlaces, id)
        sqlitePlace == findOne(sqlitePlaces, id)
        wantsCat == body.category # <<>>
        pgCat == IF wantsCat THEN findByName(pgCategories, body.category) ELSE {}
        sqliteCat == IF wantsCat
                     THEN findByName(sqliteCategories, body.category) ELSE {}
        newPg == {mergePgPlace(p, body, IdOf(pgCat)) : p \in pgPlace}
        newLite == {mergeSqlitePlace(p, body, IdOf(sqliteCat)) : p \in sqlitePlace}
    IN  /\ IF ~postgresAvailable
           THEN res' = Unreachable("updatePlace", 500, id) /\ Untouched
           ELSE IF pgPlace = {} /\ sqlitePlace = {}
           THEN res' = Reply("updatePlace", 404, id) /\ Untouched
           ELSE IF wantsCat /\ ~HasMetadata(sqliteEntities, "Category")
           THEN res' = Reply("updatePlace", 500, id) /\ Untouched
           ELSE IF wantsCat /\ (pgCat = {} \/ sqliteCat = {})
           THEN res' = Reply("updatePlace", 404, id) /\ Untouched
           ELSE IF body.instructorId # "" /\ body.instructorId \notin pgInstructors
           THEN res' = Reply("updatePlace", 404, id) /\ Untouched
           ELSE IF \E p \in newPg : UniqueViolation(pgPlaces, p)
           THEN res' = Reply("updatePlace", 500, id) /\ Untouched
           ELSE /\ pgPlaces' = remove(pgPlaces, pgPlace) \cup newPg
                /\ IF (\E p \in newLite : UniqueViolation(sqlitePlaces, p))
                        \/ (~sqliteWritable /\ newLite # sqlitePlace)
                   THEN /\ res' = Thrown("updatePlace", id, sqliteWritable)
                        /\ UNCHANGED sqlitePlaces
                   ELSE /\ sqlitePlaces' = remove(sqlitePlaces, sqlitePlace)
                                               \cup newLite
                        /\ res' = Reply("updatePlace", 200, id)
                /\ UNCHANGED <<pgCategories, sqliteCategories, nextId>>
        /\ UNCHANGED exceptStore

(***************************************************************************)
(* deletePlace: removes the row from each store that holds it.             *)
(***************************************************************************)
deletePlaceMutNeedsBoth(id, postgresAvailable, sqliteWritable, pgWritable) ==
    LET pgPlace == findOne(pgPlaces, id)
        sqlitePlace == findOne(sqlitePlaces, id)
    IN  /\ IF pgPlace = {} \/ sqlitePlace = {}
           THEN res' = Reply("deletePlace", 404, id) /\ Untouched
           ELSE /\ pgPlaces' = remove(pgPlaces, pgPlace)
                /\ sqlitePlaces' = remove(sqlitePlaces, sqlitePlace)
                /\ res' = Reply("deletePlace", 204, id)
                /\ UNCHANGED <<pgCategories, sqliteCategories, nextId>>
        /\ UNCHANGED exceptStore

deletePlace(id, postgresAvailable, sqliteWritable, pgWritable) ==
    LET pgPlace == findOne(pgPlaces, id)
        sqlitePlace == findOne(sqlitePlaces, id)
    IN  /\ IF ~postgresAvailable
           THEN res' = Unreachable("deletePlace", 500, id) /\ Untouched
           ELSE IF pgPlace = {} /\ sqlitePlace = {}
           THEN res' = Reply("deletePlace", 404, id) /\ Untouched
           ELSE IF pgPlace # {} /\ ~pgWritable
           THEN \* pgRepo.remove throws: the catch branch answers 500
                res' = Unreachable("deletePlace", 500, id) /\ Untouched
           ELSE /\ pgPlaces' = remove(pgPlaces, pgPlace)
                /\ IF sqlitePlace # {} /\ ~sqliteWritable
                   THEN /\ res' = Thrown("deletePlace", id, sqliteWritable)
                        /\ UNCHANGED sqlitePlaces
                   ELSE /\ sqlitePlaces' = remove(sqlitePlaces, sqlitePlace)
                        /\ res' = Reply("deletePlace", 204, id)
                /\ UNCHANGED <<pgCategories, sqliteCategories, nextId>>
        /\ UNCHANGED exceptStore

(***************************************************************************)
(* The read router of places: served by the canonical store when           *)
(* isPostgreSQLAvailable() answers true, by the mirror otherwise.  The     *)
(* source of a response records which branch produced it.                  *)
(***************************************************************************)
NoCategory == [id |-> NoId, name |-> <<>>]      \* category: null
\* the eager category relation of a row
categoryOf(categories, categoryId) ==
    IF findOne(categories, categoryId) = {} THEN NoCategory
    ELSE CHOOSE c \in findOne(categories, categoryId) : TRUE

\* pgRepo.find with relations category, instructor, courses
pgPlaceJson(p) ==
    [id |-> p.id, name |-> p.name, description |-> p.description,
     photos |-> p.photos, latitude |-> p.latitude, longitude |-> p.longitude,
     category |-> categoryOf(pgCategories, p.categoryId),
     officeOwner |-> p.officeOwner, capacity |-> p.capacity,
     building |-> p.building, floor |-> p.floor, code |-> p.code,
     instructor |-> p.instructorId,
     courses |-> {c \in pgCourses : c.placeId = p.id}]

\* the conversion of a mirror row to the standard format
formattedPlace(placeLite) ==
    [id |-> placeLite.id, name |-> placeLite.name, description |-> null,
     photos |-> null, latitude |-> placeLite.latitude,
     longitude |-> placeLite.longitude,
     category |-> categoryOf(sqliteCategories, placeLite.categoryId),
     officeOwner |-> null, capacity |-> null, building |-> null,
     floor |-> null, code |-> null, instructor |-> null, courses |-> {}]

getPlaceById(id, postgresAvailable) ==
    LET place == findOne(pgPlaces, id)
        placeLite == findOne(sqlitePlaces, id)
    IN  /\ IF postgresAvailable
           THEN IF place = {}
                THEN res' = [Reply("getPlaceById", 404, id)
                                 EXCEPT !.source = "postgresql"]
                ELSE res' = [Reply("getPlaceById", 200, id)
                                 EXCEPT !.source = "postgresql",
                                        !.body = {pgPlaceJson(p) : p \in place}]
           ELSE IF placeLite = {}
                THEN res' = [Reply("getPlaceById", 404, id)
                                 EXCEPT !.source = "sqlite"]
                ELSE res' = [Reply("getPlaceById", 200, id)
                                 EXCEPT !.source = "sqlite",
                                        !.body = {formattedPlace(p) : p \in placeLite}]
        /\ Untouched
        /\ UNCHANGED exceptStore

getPlaces(postgresAvailable) ==
    /\ IF postgresAvailable
       THEN res' = [Reply("getPlaces", 200, NoId)
                        EXCEPT !.source = "postgresql",
                               !.body = {pgPlaceJson(p) : p \in pgPlaces}]
       ELSE res' = [Reply("getPlaces", 200, NoId)
                        EXCEPT !.source = "sqlite",
                               !.body = {formattedPlace(p) : p \in sqlitePlaces}]
    /\ Untouched
    /\ UNCHANGED exceptStore

(***************************************************************************)
(* The stores after the seed script (src/seed.ts): a category and a place  *)
(* of that category, each mirrored under the canonical identifier.         *)
(***************************************************************************)
InitStore ==
    /\ pgCategories = {[id |-> 1, name |-> Bureau]}
    /\ sqliteCategories = {[id |-> 1, name |-> Bureau]}
    /\ pgPlaces = {newPgPlace(2, Body(Rectorat, MaxCoord, 1, Bureau,
                                      AllDetails, "inst-1"), 1)}
    /\ sqlitePlaces = {[id |-> 2, name |-> Rectorat, latitude |-> MaxCoord,
                        longitude |-> 1, categoryId |-> 1]}
    /\ nextId = 3
    /\ res = NoRes

\* Normal operation: writes run with the canonical store reachable; a read
\* is served by either branch of the router.
NextStore ==
    \/ \E name \in CategoryNames : createCategory(name, "up", TRUE)
    \/ \E id \in Ids, name \in CategoryNames : updateCategory(id, name, "up", TRUE)
    \/ \E id \in Ids : deleteCategory(id, "up", TRUE, TRUE)
    \/ \E body \in CreateBodies : createPlace(body, TRUE, TRUE)
    \/ \E id \in Ids, body \in UpdateBodies : updatePlace(id, body, TRUE, TRUE)
    \/ \E id \in Ids : deletePlace(id, TRUE, TRUE, TRUE)
    \/ \E id \in Ids, up \in BOOLEAN : getPlaceById(id, up)
    \/ \E up \in BOOLEAN : getPlaces(up)

(***************************************************************************)
(* listCategories: served by the canonical store when the connectivity     *)
(* probe isOnline() succeeds, by the mirror otherwise.  The probe asks a   *)
(* public host, not the canonical store: the canonical query that follows  *)
(* a successful probe may still throw (pgAnswers = FALSE).                 *)
(***************************************************************************)
listCategories(online, pgAnswers) ==
    /\ IF online
       THEN IF pgAnswers
            THEN res' = [Reply("listCategories", 200, NoId)
                             EXCEPT !.source = "postgresql",
                                    !.body = pgCategories]
            ELSE res' = Reply("listCategories", 500, NoId)
       ELSE res' = [Reply("listCategories", 200, NoId)
                        EXCEPT !.source = "sqlite", !.body = sqliteCategories]
    /\ Untouched
    /\ UNCHANGED exceptStore

\* Operation with failures: a write to the mirror may throw
\* (sqliteWritable = FALSE), and the canonical store may stop answering
\* after the connectivity probe of listCategories.  The requests are a part
\* of those of normal operation: two category names and the missing name, a
\* plain place, a place without a name, places that name a category or an
\* unknown instructor, and updates of the latitude or to an unknown
\* instructor.
FaultCategoryNames == {Lab, Hall, <<>>}
FaultCreateBodies ==
    {Body(Amphi, MaxCoord, 1, <<>>, NoDetails, ""),
     Body(<<>>, 1, 1, <<>>, NoDetails, ""),
     Body(Amphi, 1, 1, Lab, NoDetails, ""),
     Body(Amphi, 1, 1, <<>>, NoDetails, "inst-x")}
FaultUpdateBodies ==
    {Body(<<>>, 0, Unset, <<>>, NoDetails, ""),
     Body(<<>>, Unset, Unset, <<>>, NoDetails, "inst-x")}

NextFault ==
    \/ \E name \in FaultCategoryNames, w \in BOOLEAN : createCategory(name, "up", w)
    \/ \E id \in Ids, name \in FaultCategoryNames, w \in BOOLEAN :
           updateCategory(id, name, "up", w)
    \/ \E id \in Ids, w \in BOOLEAN, pw \in BOOLEAN :
           deleteCategory(id, "up", w, pw)
    \/ \E body \in FaultCreateBodies, w \in BOOLEAN :
           createPlace(body, TRUE, w)
    \/ \E id \in Ids, body \in FaultUpdateBodies, w \in BOOLEAN :
           updatePlace(id, body, TRUE, w)
    \/ \E id \in Ids, w \in BOOLEAN, pw \in BOOLEAN :
           deletePlace(id, TRUE, w, pw)
    \/ \E online \in BOOLEAN, pgAnswers \in BOOLEAN :
           listCategories(online, pgAnswers)

(***************************************************************************)
(* isPostgreSQLAvailable (part_017:10-23, the same text in part_012:13-26):*)
(* false when the data source is missing or not initialized, else the      *)
(* outcome of SELECT 1; a throwing query is caught and gives false.        *)
(***************************************************************************)
isPostgreSQLAvailableMutAlwaysTrue(state) == TRUE

isPostgreSQLAvailable(state) ==
    IF state = "uninitialized" THEN FALSE
    ELSE state = "up"             \* SELECT 1 answers, or throws into the catch

\* The last call: its result, the result of the call before it, and a mark
\* that every call flips.
NoProbe == [result |-> FALSE, before |-> FALSE, tick |-> FALSE]

\* a call that answers what the call before it answered
isPostgreSQLAvailableCallMutCached ==
    /\ probe' = [result |-> probe.result, before |-> probe.result,
                 tick |-> ~probe.tick]
    /\ UNCHANGED <<routeVars, storeVars, callVars, pgState>>

\* one call of the probe by any of its callers
isPostgreSQLAvailableCall ==
    /\ probe' = [result |-> isPostgreSQLAvailable(pgState),
                 before |-> probe.result, tick |-> ~probe.tick]
    /\ UNCHANGED <<routeVars, storeVars, callVars, pgState>>

\* The environment: an initialized canonical store stops answering and
\* answers again.
pgGoesDown ==
    /\ pgState = "up"
    /\ pgState' = "down"
    /\ UNCHANGED <<routeVars, storeVars, callVars, probe>>

pgComesBack ==
    /\ pgState = "down"
    /\ pgState' = "up"
    /\ UNCHANGED <<routeVars, storeVars, callVars, probe>>

InitEnv == pgState = "up" /\ probe = NoProbe

(***************************************************************************)
(* Requests in flight.  A handler is an async function: it runs to its     *)
(* next await, and other requests run while it waits.  Each await of a     *)
(* store call is one step of the request.                                  *)
(***************************************************************************)
MaxCalls == 2        \* requests in flight at the same time
MaxCallIds == 4      \* identifiers the canonical store may generate for them
MaxSignalements == 1 \* rows the Signalement table may hold
Calls == 1..MaxCalls
\* mirrorStalls: the calls this request makes to the mirror never complete
NoCall == [op |-> "", pc |-> "idle", name |-> <<>>, id |-> NoId,
           status |-> 0, at |-> "", mirrorStalls |-> FALSE, action |-> ""]
\* the response of a call, sent from its position pc
Answer(call, status) ==
    [call EXCEPT !.pc = "done", !.status = status, !.at = call.pc]

InitCalls == calls = [c \in Calls |-> NoCall] /\ pgSignalements = {}

\* createCategory, part_015:128-165: validation, both data sources
\* initialized
createCategoryBegin(c, name, mirrorStalls) ==
    /\ calls[c].pc = "idle"
    /\ LET call == [NoCall EXCEPT !.op = "createCategory", !.name = trim(name),
                                  !.pc = "begin",
                                  !.mirrorStalls = mirrorStalls]
       IN calls' = [calls EXCEPT ![c] =
                       IF ValidCategoryName(name)
                       THEN [call EXCEPT !.pc = "findPg"]
                       ELSE Answer(call, 400)]
    /\ UNCHANGED <<routeVars, storeVars, envVars, pgSignalements>>

\* part_015:168-172: await pgRepo.findOne({name})
createCategoryFindPg(c) ==
    /\ calls[c].op = "createCategory" /\ calls[c].pc = "findPg"
    /\ calls' = [calls EXCEPT ![c] =
                    IF findByName(pgCategories, calls[c].name) # {}
                    THEN Answer(calls[c], 409)
                    ELSE [calls[c] EXCEPT !.pc = "findLite"]]
    /\ UNCHANGED <<routeVars, storeVars, envVars, pgSignalements>>

\* part_015:175-179: await sqliteRepo.findOne({name})
createCategoryFindLite(c) ==
    /\ calls[c].op = "createCategory" /\ calls[c].pc = "findLite"
    /\ ~calls[c].mirrorStalls        \* the await has no timeout
    /\ calls' = [calls EXCEPT ![c] =
                    IF findByName(sqliteCategories, calls[c].name) # {}
                    THEN Answer(calls[c], 409)
                    ELSE [calls[c] EXCEPT !.pc = "savePg"]]
    /\ UNCHANGED <<routeVars, storeVars, envVars, pgSignalements>>

\* part_015:186-187: await pgRepo.save; the UNIQUE(name) constraint of
\* Category (part_002:9) refuses a second row of the name with code 23505,
\* which the catch branch answers with 409 (part_015:216-222)
createCategorySavePg(c) ==
    LET savedPg == [id |-> nextId, name |-> calls[c].name]
    IN  /\ calls[c].op = "createCategory" /\ calls[c].pc = "savePg"
        /\ IF UniqueViolation(pgCategories, savedPg)
           THEN /\ calls' = [calls EXCEPT ![c] = Answer(calls[c], 409)]
                /\ UNCHANGED <<pgCategories, nextId>>
           ELSE /\ nextId <= MaxCallIds
                /\ pgCategories' = save(pgCategories, savedPg)
                /\ nextId' = nextId + 1
                /\ calls' = [calls EXCEPT ![c] =
                                [calls[c] EXCEPT !.pc = "saveLite",
                                                 !.id = savedPg.id]]
        /\ UNCHANGED <<sqliteCategories, pgPlaces, sqlitePlaces, res>>
        /\ UNCHANGED <<routeVars, envVars, pgSignalements>>

\* part_015:190-209: await sqliteRepo.save of the copy under the canonical
\* identifier, then 201; SQLITE_CONSTRAINT is not code 23505 and its
\* message has no 'unique constraint', so the catch branch answers 500
createCategorySaveLite(c) ==
    LET lite == liteCategory([id |-> calls[c].id, name |-> calls[c].name],
                             calls[c].name)
    IN  /\ calls[c].op = "createCategory" /\ calls[c].pc = "saveLite"
        /\ ~calls[c].mirrorStalls    \* the await has no timeout
        /\ IF UniqueViolation(sqliteCategories, lite)
           THEN /\ calls' = [calls EXCEPT ![c] = Answer(calls[c], 500)]
                /\ UNCHANGED sqliteCategories
           ELSE /\ sqliteCategories' = save(sqliteCategories, lite)
                /\ calls' = [calls EXCEPT ![c] = Answer(calls[c], 201)]
        /\ UNCHANGED <<pgCategories, pgPlaces, sqlitePlaces, nextId, res>>
        /\ UNCHANGED <<routeVars, envVars, pgSignalements>>

(***************************************************************************)
(* signalementController.ts.  The mirror data source registers no          *)
(* Signalement entity (database.ts:36): every use of its repository throws *)
(* inside the handlers' inner try/catch, which only logs (lines 146-151,   *)
(* 298-307), so signalements live in the canonical store alone.            *)
(***************************************************************************)
\* createSignalement (lines 79-199) with a valid message and no place: the
\* row is saved with status 'pending' (lines 137-143) and answered 201
createSignalement ==
    /\ Cardinality(pgSignalements) < MaxSignalements
    /\ LET id == Cardinality(pgSignalements) + 1
       IN /\ pgSignalements' = pgSignalements
                                  \cup {[id |-> id, status |-> "pending"]}
          /\ res' = Reply("createSignalement", 201, id)
    /\ Untouched
    /\ UNCHANGED <<routeVars, envVars, calls>>

SignalementActions == {"accept", "reject", "archive"}

\* processSignalement, lines 248-263: validation of the action
processSignalementBegin(c, id, action) ==
    /\ calls[c].pc = "idle"
    /\ LET call == [NoCall EXCEPT !.op = "processSignalement", !.id = id,
                                  !.action = action, !.pc = "begin"]
       IN calls' = [calls EXCEPT ![c] =
                       IF action \in {"accept", "reject"}
                       THEN [call EXCEPT !.pc = "findOne"]
                       ELSE Answer(call, 400)]
    /\ UNCHANGED <<routeVars, storeVars, envVars, pgSignalements>>

\* lines 268-281: await pgRepo.findOne; 404 without a row, 409 when the row
\* read is not pending
processSignalementFindOne(c) ==
    LET signalement == findOne(pgSignalements, calls[c].id)
    IN  /\ calls[c].op = "processSignalement" /\ calls[c].pc = "findOne"
        /\ calls' = [calls EXCEPT ![c] =
                        IF signalement = {} THEN Answer(calls[c], 404)
                        ELSE IF \E s \in signalement : s.status # "pending"
                        THEN Answer(calls[c], 409)
                        ELSE [calls[c] EXCEPT !.pc = "save"]]
        /\ UNCHANGED <<routeVars, storeVars, envVars, pgSignalements>>

\* lines 284-319: the entity read earlier gets the new status and is saved,
\* whatever the row holds by now; then 200
processSignalementSave(c) ==
    LET newStatus == IF calls[c].action = "accept" THEN "accepted"
                     ELSE "rejected"
    IN  /\ calls[c].op = "processSignalement" /\ calls[c].pc = "save"
        /\ pgSignalements' =
               save(pgSignalements, [id |-> calls[c].id, status |-> newStatus])
        /\ calls' = [calls EXCEPT ![c] = Answer(calls[c], 200)]
        /\ UNCHANGED <<routeVars, storeVars, envVars>>

\* Concurrent requests: every call in flight takes its next step in any
\* order.
RaceCategoryNames == {Lab, <<" ">> \o Lab, Hall, <<>>}
NextRace ==
    \/ \E c \in Calls, name \in RaceCategoryNames, mirrorStalls \in BOOLEAN :
           createCategoryBegin(c, name, mirrorStalls)
    \/ \E c \in Calls : createCategoryFindPg(c)
    \/ \E c \in Calls : createCategoryFindLite(c)
    \/ \E c \in Calls : createCategorySavePg(c)
    \/ \E c \in Calls : createCategorySaveLite(c)
    \/ createSignalement
    \/ \E c \in Calls, id \in 1..MaxSignalements, action \in SignalementActions :
           processSignalementBegin(c, id, action)
    \/ \E c \in Calls : processSignalementFindOne(c)
    \/ \E c \in Calls : processSignalementSave(c)

\* Operation through outages of the canonical store: every write runs
\* against the canonical store as it is at the time of the request, the
\* mirror answers.  DATABASE_URL may be unset, and the canonical data source
\* is then never initialized (database.ts:40-66).
InitOutage ==
    /\ InitRoute
    /\ InitStore
    /\ pgState \in {"up", "uninitialized"}
    /\ probe = NoProbe
    /\ InitCalls

NextOutage ==
    \/ pgGoesDown
    \/ pgComesBack
    \/ isPostgreSQLAvailableCall
    \/ \E name \in FaultCategoryNames : createCategory(name, pgState, TRUE)
    \/ \E id \in Ids, name \in FaultCategoryNames :
           updateCategory(id, name, pgState, TRUE)
    \/ \E id \in Ids : deleteCategory(id, pgState, TRUE, TRUE)
    \/ \E body \in FaultCreateBodies :
           createPlace(body, isPostgreSQLAvailable(pgState), TRUE)
    \/ \E id \in Ids, body \in FaultUpdateBodies :
           updatePlace(id, body, isPostgreSQLAvailable(pgState), TRUE)
    \/ \E id \in Ids : deletePlace(id, isPostgreSQLAvailable(pgState), TRUE, TRUE)

\* The service on a database that was not seeded: the requests of NextFault
\* on empty tables.
InitFresh ==
    /\ InitRoute /\ InitEnv /\ InitCalls
    /\ pgCategories = {} /\ sqliteCategories = {}
    /\ pgPlaces = {} /\ sqlitePlaces = {}
    /\ nextId = 1
    /\ res = NoRes

Init == InitRoute /\ InitStore /\ InitEnv /\ InitCalls
Next == NextRoute \/ NextStore \/ NextFault \/ NextOutage \/ NextRace

SpecRoute == Init /\ [][NextRoute]_vars
SpecStore == Init /\ [][NextStore]_vars
SpecFault == Init /\ [][NextFault]_vars
SpecOutage == InitOutage /\ [][NextOutage]_vars
SpecRace == Init /\ [][NextRace]_vars
\* every request in flight takes the steps it can take
SpecRaceLive == Init /\ [][NextRace]_vars /\ WF_vars(NextRace)
SpecFresh == InitFresh /\ [][NextFault]_vars
Spec == Init /\ [][Next]_vars

(***************************************************************************)
(* Properties of the route engine.                                         *)
(***************************************************************************)
Endpoints(edges) == {edges[i].fromId : i \in DOMAIN edges}
                        \cup {edges[i].toId : i \in DOMAIN edges}

\* The undirected expansion with the costs as stored: the pairs <<w, c>> such
\* that a stored edge of cost c joins u and w.
StoredNeighbours(edges, u) ==
    {<<edges[i].toId, edges[i].cost>> : i \in {j \in DOMAIN edges : edges[j].fromId = u}}
    \cup {<<edges[i].fromId, edges[i].cost>> : i \in {j \in DOMAIN edges : edges[j].toId = u}}

Min(S) == CHOOSE x \in S : \A y \in S : x <= y

\* The least sum of stored costs over the undirected walks from u to v of at
\* most hops edges; Infinity when there is none.
RECURSIVE MinStoredCost(_, _, _, _)
MinStoredCost(edges, u, v, hops) ==
    IF u = v THEN 0
    ELSE IF hops = 0 THEN Infinity
    ELSE LET sums == {IF MinStoredCost(edges, n[1], v, hops - 1) = Infinity
                      THEN Infinity
                      ELSE n[2] + MinStoredCost(edges, n[1], v, hops - 1)
                      : n \in StoredNeighbours(edges, u)}
         IN IF sums = {} THEN Infinity ELSE Min(sums)

Connected(edges, u, v) ==
    /\ u \in Endpoints(edges)
    /\ v \in Endpoints(edges)
    /\ MinStoredCost(edges, u, v, Cardinality(Endpoints(edges))) < Infinity

AllPositive(edges) == \A i \in DOMAIN edges : edges[i].cost > 0

Answered == route.status \in {200, 404}

C2_WitnessGhost ==
    /\ route.status = 404
    /\ route.fromId \in Endpoints(pgEdges)
    /\ route.toId = "ghost"

LegCosts(edges, u, w) ==
    {LegCost(edges[i].cost) : i \in {j \in DOMAIN edges :
        \/ (edges[j].fromId = u /\ edges[j].toId = w)
        \/ (edges[j].fromId = w /\ edges[j].toId = u)}}

RECURSIVE SumLegs(_, _)
SumLegs(edges, path) ==
    IF Len(path) < 2 THEN 0
    ELSE Min(LegCosts(edges, path[1], path[2])) + SumLegs(edges, Tail(path))

Range(seq) == {seq[i] : i \in DOMAIN seq}

\* C26: for the edges loaded and the request answered, the main loop and
\* the predecessor walk end; after every relaxation the predecessor map has
\* no cycle, and a relaxation changes neither the distance nor the
\* predecessor of a node that has left the queue.
C26_SearchTerminates ==
    LET adj == BuildAdj(pgEdges, EmptyAdj)
        K == DOMAIN adj.legs
    IN (route.status \in {200, 404} /\ route.fromId \in K /\ route.toId \in K) =>
        LET steps == dijkstraSteps(adj, route.fromId, route.toId)
        IN /\ route.ends
           /\ Len(steps) <= 1 + 2 * Len(pgEdges) * Cardinality(K)
           /\ \A i \in DOMAIN steps : \A k \in K :
                 WalkBack(steps[i].prev, k, <<>>, Cardinality(K) + 1).ends
           /\ \A i \in 2..Len(steps) : \A k \in K \ Range(steps[i].pq) :
                 /\ steps[i].dist[k] = steps[i - 1].dist[k]
                 /\ steps[i].prev[k] = steps[i - 1].prev[k]

\* a request answered over a zero-cost edge, a parallel edge or a loop, whose
\* search relaxed legs that lead back to nodes that had left the queue
C26_Witness ==
    /\ route.status = 200
    /\ Len(route.path) = 3
    /\ \E i \in DOMAIN pgEdges : pgEdges[i].cost = 0

\* C5: an edge stored with cost 0 is routed with cost 0: with the single edge
\* A-B of stored cost 0 loaded, the request from A to B returns distance 0.
C5_ZeroCostKept ==
    (/\ Len(pgEdges) = 1
     /\ pgEdges[1].cost = 0
     /\ pgEdges[1].fromId # pgEdges[1].toId
     /\ route.status = 200
     /\ route.fromId = pgEdges[1].fromId
     /\ route.toId = pgEdges[1].toId)
        => route.distance = 0

(***************************************************************************)
(* Properties of the dual store                                            *)
(***************************************************************************)
Stores == <<pgCategories, sqliteCategories, pgPlaces, sqlitePlaces>>

C7_MirrorEqualsCanonical ==
    /\ (res.op = "createCategory" /\ res.status = 201) =>
           /\ findOne(pgCategories, res.id) # {}
           /\ findOne(sqliteCategories, res.id) # {}
           /\ \A c \in findOne(pgCategories, res.id),
                 l \in findOne(sqliteCategories, res.id) : l.name = c.name
    /\ (res.op = "createPlace" /\ res.status = 201) =>
           /\ findOne(pgPlaces, res.id) # {}
           /\ findOne(sqlitePlaces, res.id) # {}
           /\ \A p \in findOne(pgPlaces, res.id),
                 l \in findOne(sqlitePlaces, res.id) :
                   /\ l.name = p.name
                   /\ l.latitude = p.latitude
                   /\ l.longitude = p.longitude
                   /\ l.categoryId = p.categoryId

C7_Witness ==
    /\ res.op = "createPlace"
    /\ res.status = 201
    /\ \E p \in findOne(pgPlaces, res.id) : p.description # null

\* the fields of Place that PlaceLite does not have
MirrorLacks ==
    {"description", "photos", "officeOwner", "capacity", "building", "floor",
     "code", "instructor", "courses"}
\* the value the mirror branch puts in a field it cannot serve
Unavailable(f) == IF f = "courses" THEN {} ELSE null
\* the canonical response of a place that has none of the optional data
EmptyCanonical ==
    pgPlaceJson(newPgPlace(NoId, Body(Amphi, 1, 1, <<>>, NoDetails, ""), NoId))

C9_MarkerDistinct ==
    (res.op \in {"getPlaceById", "getPlaces"} /\ res.source = "sqlite"
        /\ res.status = 200) =>
        \A r \in res.body :
            /\ DOMAIN r = DOMAIN EmptyCanonical
            /\ \A f \in MirrorLacks : r[f] # EmptyCanonical[f]

C11_DeleteNotFoundExactly ==
    [][/\ res'.op = "deleteCategory" =>
            /\ res'.status = 404 <=>
                   (findOne(pgCategories, res'.id) = {}
                        /\ findOne(sqliteCategories, res'.id) = {})
            /\ ((findOne(pgCategories, res'.id) # {}
                      \/ findOne(sqliteCategories, res'.id) # {})
                    /\ (\A p \in pgPlaces \cup sqlitePlaces :
                            p.categoryId # res'.id)
                    /\ res'.failed = "") =>
                   /\ res'.status = 200
                   /\ findOne(pgCategories', res'.id) = {}
                   /\ findOne(sqliteCategories', res'.id) = {}
       /\ res'.op = "deletePlace" =>
            /\ res'.status = 404 <=>
                   (findOne(pgPlaces, res'.id) = {}
                        /\ findOne(sqlitePlaces, res'.id) = {})
            /\ ((findOne(pgPlaces, res'.id) # {}
                      \/ findOne(sqlitePlaces, res'.id) # {})
                    /\ res'.failed = "") =>
                   /\ res'.status = 204
                   /\ findOne(pgPlaces', res'.id) = {}
                   /\ findOne(sqlitePlaces', res'.id) = {}]_vars

\* a category that only the mirror held has been deleted
C11_Witness ==
    /\ res.op = "deleteCategory"
    /\ res.status = 200
    /\ res.deletedFrom = {"sqlite"}

\* C12: a delete of a category or place that only the canonical store holds
\* succeeds, and its response names exactly the stores a row was removed
\* from.
C12_PartialDeleteReported ==
    [][/\ (res'.op = "deleteCategory"
              /\ findOne(pgCategories, res'.id) # {}
              /\ findOne(sqliteCategories, res'.id) = {}) =>
            (res'.status = 200 /\ res'.deletedFrom = {"postgresql"})
       /\ (res'.op = "deletePlace"
              /\ findOne(pgPlaces, res'.id) # {}
              /\ findOne(sqlitePlaces, res'.id) = {}) =>
            (res'.status = 204 /\ res'.deletedFrom = {"postgresql"})]_vars

\* C13: deleteCategory of a category that a place of either store still
\* references is answered 409 and removes nothing; in each store every
\* category a place references is present.
C13_CategoryInUseKept ==
    /\ [](/\ \A p \in pgPlaces :
                p.categoryId # NoId => findOne(pgCategories, p.categoryId) # {}
          /\ \A p \in sqlitePlaces :
                p.categoryId # NoId =>
                    findOne(sqliteCategories, p.categoryId) # {})
    /\ [][(res'.op = "deleteCategory"
              /\ (findOne(pgCategories, res'.id) # {}
                     \/ findOne(sqliteCategories, res'.id) # {})
              /\ (\E p \in pgPlaces \cup sqlitePlaces :
                     p.categoryId = res'.id)) =>
            (res'.status = 409 /\ Stores' = Stores)]_vars

\* C14: an update of a category or of a place whose id is absent from the
\* canonical store, with both stores answering, changes neither store and,
\* unless the body is refused as invalid, is answered 404, also when the
\* mirror holds a record with that id.
C14_UpdateNeedsCanonical ==
    [][/\ (res'.op = "updateCategory" /\ res'.failed = ""
              /\ findOne(pgCategories, res'.id) = {}) =>
            (res'.status \in {400, 404} /\ Stores' = Stores)
       /\ (res'.op = "updatePlace" /\ res'.failed = ""
              /\ findOne(pgPlaces, res'.id) = {}) =>
            (res'.status \in {400, 404} /\ Stores' = Stores)]_vars

\* C15: with the mirror answering, listCategories is always answered 200
\* with the list of the store it names, and names the canonical store only
\* when the list was read from it.
C15_ListNeverFails ==
    res.op = "listCategories" =>
        /\ res.status = 200
        /\ \/ res.source = "postgresql" /\ res.body = pgCategories
           \/ res.source = "sqlite" /\ res.body = sqliteCategories

\* C16: every import of edges ends with a response, and the count it
\* reports is the number of edges the request has added to the canonical
\* store.
C16_ImportAlwaysAnswers ==
    [][(importRes' # importRes \/ pgEdges' # pgEdges) =>
            /\ importRes'.status = 200
            /\ importRes'.imported = Len(pgEdges') - Len(pgEdges)]_vars

\* C17: a valid createCategory, updateCategory or createPlace whose name is
\* the name of another canonical record of the same class is answered 409
\* and writes to neither store.
C17_NameCollisionIsConflict ==
    [][/\ \A name \in CategoryNames :
            (/\ createCategory(name, "up", TRUE)
             /\ ValidCategoryName(name)
             /\ findByName(pgCategories, trim(name)) # {}) =>
                (res'.status = 409 /\ Stores' = Stores)
       /\ \A id \in Ids, name \in CategoryNames :
            (/\ updateCategory(id, name, "up", TRUE)
             /\ ValidCategoryName(name)
             /\ findOne(pgCategories, id) # {}
             /\ \E c \in findByName(pgCategories, trim(name)) : c.id # id) =>
                (res'.status = 409 /\ Stores' = Stores)
       /\ \A body \in CreateBodies :
            (/\ createPlace(body, TRUE, TRUE)
             /\ ~Falsy(body.latitude) /\ ~Falsy(body.longitude)
             /\ \E p \in pgPlaces : p.name = body.name) =>
                (res'.status = 409 /\ Stores' = Stores)]_vars

\* C18: a createPlace, updatePlace, createCategory or updateCategory that
\* is answered 400 or 404 leaves both stores as they were.
C18_RejectedWritesNothing ==
    [][(/\ res'.op \in {"createPlace", "updatePlace", "createCategory",
                        "updateCategory"}
        /\ res'.status \in {400, 404}) => Stores' = Stores]_vars

\* createPlace answered 404 for an instructor the canonical store lacks
C18_Witness == res.op = "createPlace" /\ res.status = 404

\* C19: a valid createPlace that names a category no canonical category
\* has is answered 404 and creates neither a place nor a category.
C19_UnknownCategoryNotFound ==
    [][\A body \in CreateBodies :
          (/\ createPlace(body, TRUE, TRUE)
           /\ body.name # <<>>
           /\ ~Falsy(body.latitude) /\ ~Falsy(body.longitude)
           /\ body.category # <<>>
           /\ findByName(pgCategories, body.category) = {}) =>
              (res'.status = 404 /\ Stores' = Stores)]_vars

\* C20: a createCategory or createPlace whose write to the mirror fails is
\* answered with a 5xx status, and neither store holds anything the
\* request wrote.
C20_FailedCreateLeavesNothing ==
    [][(res'.op \in {"createCategory", "createPlace"}
            /\ res'.failed = "sqlite") =>
           (res'.status >= 500 /\ Stores' = Stores)]_vars

(***************************************************************************)
(* Properties of the dual store through outages of the canonical store     *)
(***************************************************************************)
WriteOps == {"createCategory", "updateCategory", "deleteCategory",
             "createPlace", "updatePlace", "deletePlace"}

\* C21: a create, update or delete of a category or place made while the
\* canonical store does not answer is answered with an error status and
\* leaves both stores as they were.
C21_OutageWritesNothing ==
    [][(pgState # "up" /\ UNCHANGED envVars) =>
           /\ Stores' = Stores
           /\ res'.op \in WriteOps => res'.status >= 400]_vars

\* the delete of a place both stores hold, refused while the canonical
\* store is down
C21_Witness ==
    /\ pgState = "down"
    /\ res.op = "deletePlace" /\ res.failed = "postgresql"
    /\ findOne(pgPlaces, res.id) # {} /\ findOne(sqlitePlaces, res.id) # {}

\* C22: every call of isPostgreSQLAvailable returns a boolean: TRUE exactly
\* when the canonical store is initialized and answers at the time of the
\* call, whatever the call before it returned.
C22_ProbeIsFresh ==
    [][probe'.tick # probe.tick =>
           /\ probe'.result \in BOOLEAN
           /\ probe'.result = (pgState = "up")]_vars

\* a call that returned FALSE after a call that returned TRUE
C22_Witness == pgState = "down" /\ ~probe.result /\ probe.before

\* C24: every category and every place of the mirror has a canonical
\* record with its identifier.
C24_MirrorHasCanonical ==
    /\ \A c \in sqliteCategories : findOne(pgCategories, c.id) # {}
    /\ \A p \in sqlitePlaces : findOne(pgPlaces, p.id) # {}

\* C25: every row a createCategory or createPlace adds to the mirror has
\* the identifier the canonical store generated in that request, under
\* which the request has added a canonical row; a request that adds no
\* canonical row adds no mirror row.
C25_MirrorWriteFollowsCanonical ==
    [][res'.op \in {"createCategory", "createPlace"} =>
          /\ \A c \in sqliteCategories' \ sqliteCategories :
                /\ c.id >= nextId /\ c.id < nextId'
                /\ findOne(pgCategories' \ pgCategories, c.id) # {}
          /\ \A p \in sqlitePlaces' \ sqlitePlaces :
                /\ p.id >= nextId /\ p.id < nextId'
                /\ findOne(pgPlaces' \ pgPlaces, p.id) # {}]_vars

\* a place created in both stores under the generated identifier
C25_Witness ==
    /\ res.op = "createPlace" /\ res.status = 201
    /\ findOne(pgPlaces, res.id) # {} /\ findOne(sqlitePlaces, res.id) # {}

\* an update, with both stores answering, that is carried out
PerformsUpdateCategory(id) ==
    \E name \in CategoryNames :
        ENABLED (updateCategory(id, name, "up", TRUE) /\ res'.status = 200)
PerformsUpdatePlace(id) ==
    \E body \in UpdateBodies :
        ENABLED (updatePlace(id, body, TRUE, TRUE) /\ res'.status = 200)
MirrorMissing(id, pgRows, liteRows) ==
    findOne(pgRows, id) # {} /\ findOne(liteRows, id) = {}

\* C27: whenever a category and a place both lack their mirror row, an
\* update of the one is carried out exactly if an update of the other is:
\* the service performs both or rejects both.
C27_OnePolicyForMissingMirror ==
    \A c \in Ids, p \in Ids :
        (MirrorMissing(c, pgCategories, sqliteCategories)
            /\ MirrorMissing(p, pgPlaces, sqlitePlaces)) =>
          (PerformsUpdateCategory(c) <=> PerformsUpdatePlace(p))

\* C30: in a delete of an entity that has a row in both stores, the mirror
\* removal is carried out even when the canonical removal fails, and when
\* exactly one of the two rows is gone the response names that store in
\* deletedFrom.
InBoth(id, pgRows, liteRows) ==
    findOne(pgRows, id) # {} /\ findOne(liteRows, id) # {}
Gone(id, rows, rowsAfter) ==
    {s \in {"removed"} : findOne(rows, id) # {} /\ findOne(rowsAfter, id) = {}}
DeletedFrom(id, pgRows, pgAfter, liteRows, liteAfter) ==
    {"postgresql" : g \in Gone(id, pgRows, pgAfter)}
        \cup {"sqlite" : g \in Gone(id, liteRows, liteAfter)}
C30_RemovalsIndependent ==
    [][\A id \in Ids :
        /\ (deleteCategory(id, "up", TRUE, FALSE)
                /\ InBoth(id, pgCategories, sqliteCategories)
                /\ \A p \in pgPlaces \cup sqlitePlaces : p.categoryId # id) =>
              findOne(sqliteCategories', id) = {}
        /\ (deletePlace(id, TRUE, TRUE, FALSE)
                /\ InBoth(id, pgPlaces, sqlitePlaces)) =>
              findOne(sqlitePlaces', id) = {}
        /\ (res'.op = "deleteCategory" /\ res'.id = id
                /\ InBoth(id, pgCategories, sqliteCategories)
                /\ Cardinality(DeletedFrom(id, pgCategories, pgCategories',
                                     sqliteCategories, sqliteCategories')) = 1) =>
              res'.deletedFrom = DeletedFrom(id, pgCategories, pgCategories',
                                             sqliteCategories, sqliteCategories')
        /\ (res'.op = "deletePlace" /\ res'.id = id
                /\ InBoth(id, pgPlaces, sqlitePlaces)
                /\ Cardinality(DeletedFrom(id, pgPlaces, pgPlaces',
                                     sqlitePlaces, sqlitePlaces')) = 1) =>
              res'.deletedFrom = DeletedFrom(id, pgPlaces, pgPlaces',
                                             sqlitePlaces, sqlitePlaces')]_vars

(***************************************************************************)
(* Properties of requests in flight                                        *)
(***************************************************************************)
Created(name) ==
    {c \in Calls : /\ calls[c].op = "createCategory"
                   /\ calls[c].name = name
                   /\ calls[c].status = 201}

\* C23: of the createCategory requests in flight with one name at most one
\* is answered 201, and neither store ever holds two categories of one
\* name.
C23_OneCreateWins ==
    /\ \A c \in Calls : Cardinality(Created(calls[c].name)) <= 1
    /\ \A x \in pgCategories, y \in pgCategories : x.name = y.name => x = y
    /\ \A x \in sqliteCategories, y \in sqliteCategories :
           x.name = y.name => x = y

\* two requests with one name passed both lookups; one was answered 201,
\* the other was refused by the canonical store's constraint
C23_Witness ==
    \E c \in Calls, d \in Calls :
        /\ calls[c].status = 201
        /\ calls[d].name = calls[c].name
        /\ calls[d].status = 409 /\ calls[d].at = "savePg"

\* C29: the status of a signalement changes only from 'pending'; a valid
\* processSignalement answered while the signalement is not pending is
\* answered 409 and leaves the table as it was.
C29_ProcessedOnce ==
    [][/\ \A s \in pgSignalements, t \in pgSignalements' :
            (s.id = t.id /\ s.status # t.status) => s.status = "pending"
       /\ \A c \in Calls :
            (/\ calls[c].op = "processSignalement"
             /\ calls[c].pc \in {"findOne", "save"}
             /\ calls'[c].pc = "done"
             /\ \E s \in pgSignalements :
                    s.id = calls[c].id /\ s.status # "pending") =>
                (calls'[c].status = 409
                    /\ pgSignalements' = pgSignalements)]_vars

\* C28: a request that waits for the mirror is answered in the end, also
\* when its mirror call never completes.
C28_StalledMirrorAnswered ==
    \A c \in Calls :
        (calls[c].pc \in {"findLite", "saveLite"}) ~> (calls[c].pc = "done")
====
